---- MODULE Spec2Model ----
(***************************************************************************)
(* A model of the agario arena simulation: geometry, terrain map, entity   *)
(* movement and resizing, the pairwise collision state machine, the        *)
(* render pass with trajectory rollback, and the Game.run loop.            *)
(*                                                                         *)
(* Python values are represented as follows.                               *)
(*   None            the empty tuple <<>>                                  *)
(*   Vector2(x, y)   the tuple <<x, y>>                                    *)
(*   Rect            a record [x1, y1, x2, y2]                             *)
(*   Dir members     the strings "Left", "Right", "Up", "Down"; a missing  *)
(*                   direction is the string "None"                        *)
(*   a text line     a sequence of one-character strings                   *)
(*   a dict          a function whose domain is the set of present keys    *)
(***************************************************************************)
EXTENDS Integers, Sequences, FiniteSets, TLC

VARIABLES
    data,       \* Terminal.map.data: the loaded terrain rows
    player,     \* Game.player
    enemy,      \* the Enemy objects, by identity
    enemies,    \* Game.enemies: the list of active enemy identities
    tb,         \* Terminal.tb: "open", or "None" after Terminal.close
    debug,      \* Terminal.debug
    pc,         \* Game.run: "running" inside the loop, "returned" after it
    status,     \* the value Game.run returned: <<>> while running
    trace,      \* history: the steps the latest tick went through, in order
    last,       \* history: what check_collision saw and did in the latest tick
    call,       \* the arguments of a function applied in isolation
    ret         \* its results: <<>> before the call

vars == <<data, player, enemy, enemies, tb, debug, pc, status, trace, last, call, ret>>

----------------------------------------------------------------------------
(* Bounds of the model *)

\* number of enemies spawned (the program spawns 300)
EnemyCount == 2

\* the functions applied in isolation take coordinates that differ from
\* their origin by Span at most
Span == 3

\* the number of rows of a terrain file read in isolation; a row has Span
\* cells
MapRows == 2

----------------------------------------------------------------------------
(* Program constants *)

StartX == 10

StartY == 10

MinSize == 1

MaxSize == 19

StatusCode_OK == 0

StatusCode_GameExit == 1

Failure == -1

None == <<>>

----------------------------------------------------------------------------
(* Geometry primitives *)

Vector2(x, y) == <<x, y>>

Vector2_add(a, b) == Vector2(a[1] + b[1], a[2] + b[2])

Dirs == {"Left", "Right", "Up", "Down"}

\* a Dir whose members all step by one cell
Dir_unit(d) ==
    CASE d = "Left"  -> <<-1, 0>>
      [] d = "Right" -> <<1, 0>>
      [] d = "Up"    -> <<0, -1>>
      [] d = "Down"  -> <<0, 1>>

Dir(d) ==
    CASE d = "Left"  -> Vector2(-2, 0)
      [] d = "Right" -> Vector2(2, 0)
      [] d = "Up"    -> Vector2(0, -1)
      [] d = "Down"  -> Vector2(0, 1)

Rect(x1, y1, x2, y2) == [kind |-> "Rect", x1 |-> x1, y1 |-> y1, x2 |-> x2, y2 |-> y2]

lb(rect) == Vector2(rect.x1, rect.y1)

lt(rect) == Vector2(rect.x1, rect.y2)

rb(rect) == Vector2(rect.x2, rect.y1)

rt(rect) == Vector2(rect.x2, rect.y2)

Abs(n) == IF n < 0 THEN -n ELSE n

Rect_get_center(rect) ==
    Vector2(rect.x1 + (rect.x2 - rect.x1), rect.y1 + (rect.y2 - rect.y1))

Rect_get_pos(rect) == Rect_get_center(rect)

Rect_get_width(rect) == Abs(rect.x2 - rect.x1) + 1

Rect_get_height(rect) == Abs(rect.y2 - rect.y1) + 1

\* the sizes the Size enum has a member for
Size == {n \in MinSize..MaxSize : n % 2 = 1}

----------------------------------------------------------------------------
(* Map *)

IsSpace(c) == c = " "

RECURSIVE lstrip(_)
lstrip(line) ==
    IF line # <<>> /\ IsSpace(Head(line)) THEN lstrip(Tail(line)) ELSE line

RECURSIVE rstrip(_)
rstrip(line) ==
    IF line # <<>> /\ IsSpace(line[Len(line)])
    THEN rstrip(SubSeq(line, 1, Len(line) - 1))
    ELSE line

\* str.strip
strip(line) == rstrip(lstrip(line))

\* Map.load: every line of the file, stripped
load(mapfile) == [i \in 1..Len(mapfile) |-> strip(mapfile[i])]

\* seq[i] of Python: a negative index counts from the end; outside
\* -len .. len-1 it raises IndexError
InRange(seq, i) == -Len(seq) <= i /\ i < Len(seq)

Index(seq, i) == IF i >= 0 THEN seq[i + 1] ELSE seq[Len(seq) + i + 1]

\* Map.intersectd_with(pos=...)
intersectd_with_pos(d, pos) ==
    IF ~InRange(d, pos[2]) THEN TRUE                      \* IndexError
    ELSE IF ~InRange(Index(d, pos[2]), pos[1]) THEN TRUE  \* IndexError
    ELSE strip(<<Index(Index(d, pos[2]), pos[1])>>) # <<>>

\* Map.intersectd_with(rect=...)
intersectd_with_rect(d, rect) ==
    \/ intersectd_with_pos(d, lb(rect))
    \/ intersectd_with_pos(d, lt(rect))
    \/ intersectd_with_pos(d, rb(rect))
    \/ intersectd_with_pos(d, rt(rect))

\* Map.boundary
boundary(d) == Rect(0, 0, Len(d[1]), Len(d))

----------------------------------------------------------------------------
(* Entities: GameObject, Player, Enemy *)

\* GameObject.__init__ after Renderable.__init__; the colours are set by the
\* subclass
GameObject(kind, x, y, fg, bg) ==
    [kind |-> kind,
     pos |-> Vector2(x, y),
     prev_pos |-> None,
     direction |-> "None",
     prev_direction |-> "None",
     size |-> MinSize,
     fg |-> fg,
     bg |-> bg,
     collisions |-> <<>>,
     being_destroyed |-> FALSE]

\* Player.__init__
Player(x, y) == GameObject("Player", x, y, "Red", "Red")

\* Enemy.__init__: the foreground is the colour Color.random_color drew
Enemy(x, y, fg) == GameObject("Enemy", x, y, fg, "None")

set_color(self, fg, bg) == [self EXCEPT !.fg = fg, !.bg = bg]

\* Size(value): the enum lookup raises ValueError for a value with no member
set_size(self, value) == [self EXCEPT !.size = value]

Min(a, b) == IF a < b THEN a ELSE b

Max(a, b) == IF a > b THEN a ELSE b

\* an expand without the upper bound
expand_unbounded(self) == set_size(self, self.size + 2)

expand(self) == set_size(self, Min(self.size + 2, MaxSize))

shrink(self) == set_size(self, Max(self.size - 2, MinSize))

\* a destroy that leaves the flag alone
destroy_nothing(self) == self

destroy(self) == [self EXCEPT !.being_destroyed = TRUE]

\* Renderable.move: direction is a Dir member or "None", pos a Vector2 or None
move(self, direction, pos) ==
    LET s0 == [self EXCEPT !.prev_direction = self.direction]
        s1 == IF direction # "None"
              THEN [s0 EXCEPT !.direction = direction,
                              !.prev_pos = s0.pos,
                              !.pos = Vector2_add(s0.pos, Dir(direction))]
              ELSE s0
    IN  IF pos # None
        THEN [s1 EXCEPT !.prev_pos = s1.pos, !.pos = pos]
        ELSE s1

\* Renderable.get_rect
get_rect(self) ==
    LET diameter == Vector2((self.size - 1) \div 2, (self.size - 1) \div 2)
    IN  Rect(self.pos[1] - diameter[1], self.pos[2] - diameter[2],
             self.pos[1] + diameter[1], self.pos[2] + diameter[2])

\* a make_trajectory that moves the horizontal edges inward
make_trajectory_inward(self, rect) ==
    CASE self.direction = "Left" ->
            Rect(rect.x1, rect.y1, rect.x2 + Dir("Left")[1], rect.y2)
      [] self.direction = "Right" ->
            Rect(rect.x1 + Dir("Right")[1], rect.y1, rect.x2, rect.y2)
      [] self.direction = "Up" ->
            Rect(rect.x1, rect.y1 - Dir("Up")[2], rect.x2, rect.y2)
      [] self.direction = "Down" ->
            Rect(rect.x1, rect.y1, rect.x2, rect.y2 - Dir("Down")[2])
      [] OTHER -> rect

\* Renderable.make_trajectory
make_trajectory(self, rect) ==
    CASE self.direction = "Left" ->
            Rect(rect.x1, rect.y1, rect.x2 - Dir("Left")[1], rect.y2)
      [] self.direction = "Right" ->
            Rect(rect.x1 - Dir("Right")[1], rect.y1, rect.x2, rect.y2)
      [] self.direction = "Up" ->
            Rect(rect.x1, rect.y1 - Dir("Up")[2], rect.x2, rect.y2)
      [] self.direction = "Down" ->
            Rect(rect.x1, rect.y1, rect.x2, rect.y2 - Dir("Down")[2])
      [] OTHER -> rect

\* get_pos, get_width, get_height of either a Rect or a GameObject
get_pos(o) == IF o.kind = "Rect" THEN Rect_get_pos(o) ELSE o.pos

get_width(o) == IF o.kind = "Rect" THEN Rect_get_width(o) ELSE o.size

get_height(o) == IF o.kind = "Rect" THEN Rect_get_height(o) ELSE o.size

----------------------------------------------------------------------------
(* Collision engine *)

\* a collide that takes the extent of its first argument alone
collide_by_lhs(lhs, rhs) ==
    /\ Abs(get_pos(lhs)[1] - get_pos(rhs)[1]) < get_width(lhs)
    /\ Abs(get_pos(lhs)[2] - get_pos(rhs)[2]) < get_height(lhs)

\* collide(lhs, rhs); a Vector2 is always truthy, so the guard on the
\* positions never returns early
collide(lhs, rhs) ==
    LET pos1 == get_pos(lhs)
        pos2 == get_pos(rhs)
        xdistance == Abs(pos1[1] - pos2[1])
        width == (get_width(lhs) + get_width(rhs)) \div 2
        ydistance == Abs(pos1[2] - pos2[2])
        height == (get_height(lhs) + get_height(rhs)) \div 2
    IN  xdistance < width /\ ydistance < height

\* dict.get: None (falsy) for a missing key
dict_get(d, k) == IF k \in DOMAIN d THEN d[k] ELSE FALSE

\* a dict.update that stores only a truthy value
dict_update_truthy(d, k, v) ==
    IF v THEN [x \in (DOMAIN d) \cup {k} |-> IF x = k THEN v ELSE d[x]] ELSE d

\* dict.update({k: v})
dict_update(d, k, v) == [x \in (DOMAIN d) \cup {k} |-> IF x = k THEN v ELSE d[x]]

\* a Player.on_collision_entered that only changes the colour
Player_on_collision_entered_plain(self) == set_color(self, "Green", "Green")

Player_on_collision_entered(self) == expand(set_color(self, "Green", "Green"))

Player_on_collision_exited(self) == set_color(self, "Red", "Red")

Enemy_on_collision_entered(self) == set_color(self, "Green", "None")

Enemy_on_collision_exited(self) == destroy(set_color(self, "Blue", "None"))

\* a callback invocation, as the history records it: on is the receiver
\* (0 for the player), other the collision's other party
Callback(name, on, other) == [name |-> name, on |-> on, other |-> other]

\* the if / elif / else of check_collision, given the stored flag it read and
\* the overlap it computed; w.last records both per enemy, with the state
\* returned and the callbacks invoked in order
transition(w, e, was_being_collided, being_collided) ==
    IF ~was_being_collided /\ being_collided THEN
        [w EXCEPT
            !.player = Player_on_collision_entered(
                [@ EXCEPT !.collisions = dict_update(@, e, being_collided)]),
            !.enemy[e] = Enemy_on_collision_entered(@),
            !.last = [@ EXCEPT
                !.was[e] = was_being_collided,
                !.being[e] = being_collided,
                !.result[e] = "Entered",
                !.log = @ \o <<Callback("on_collision_entered", 0, e),
                               Callback("on_collision_entered", e, 0)>>]]
    ELSE IF was_being_collided /\ ~being_collided THEN
        [w EXCEPT
            !.player = Player_on_collision_exited(
                [@ EXCEPT !.collisions = dict_update(@, e, being_collided)]),
            !.enemy[e] = Enemy_on_collision_exited(@),
            !.last = [@ EXCEPT
                !.was[e] = was_being_collided,
                !.being[e] = being_collided,
                !.result[e] = "Exited",
                !.log = @ \o <<Callback("on_collision_exited", 0, e),
                               Callback("on_collision_exited", e, 0)>>]]
    ELSE
        [w EXCEPT !.last = [@ EXCEPT
            !.was[e] = was_being_collided,
            !.being[e] = being_collided,
            !.result[e] = IF being_collided THEN "BeingCollided"
                          ELSE "NotCollided"]]

\* a check_collision that takes every stored flag for unset
check_collision_forgetful(w, e) ==
    transition(w, e, FALSE,
        collide(make_trajectory(w.player, get_rect(w.player)), w.enemy[e]))

\* check_collision(player, other) for the enemy of identity e, on a world w
check_collision(w, e) ==
    transition(w, e,
        dict_get(w.player.collisions, e),
        collide(make_trajectory(w.player, get_rect(w.player)), w.enemy[e]))

----------------------------------------------------------------------------
(* Terminal: input polling and the render pass.  These operators map a     *)
(* world w = [player, enemy, enemies, tb, debug, exc, trace, last] to the  *)
(* world after the call; w.exc names the exception that is propagating     *)
(* ("None" when there is none), and every operator passes a world with an  *)
(* exception through unchanged, as the statements after a raise are        *)
(* skipped.                                                                *)

Obj(w, o) == IF o = 0 THEN w.player ELSE w.enemy[o]

\* stands for the object of a step that concerns none
Nobody == GameObject("None", 0, 0, "None", "None")

\* one entry of the tick's history: the call made, the object it concerns
\* (0 the player, e the enemy e, -1 none), the check_intersect argument of a
\* render, the object as it is when the call is made, and the (dx, dy) a
\* render is called with (None for the other calls)
Step(op, obj, check, self) ==
    [op |-> op, obj |-> obj, check |-> check, self |-> self, camera |-> None]

Did(w, op, obj, check) ==
    [w EXCEPT !.trace =
        Append(@, Step(op, obj, check, IF obj = -1 THEN Nobody ELSE Obj(w, obj)))]

SetObj(w, o, self) ==
    IF o = 0 THEN [w EXCEPT !.player = self] ELSE [w EXCEPT !.enemy[o] = self]

\* Terminal.close
Terminal_close(w) == [Did(w, "close", -1, FALSE) EXCEPT !.tb = "None"]

\* what tb.peek_event can yield: nothing (got = FALSE; unpacking None raises
\* TypeError), a key event (uch is None) or a character event (key is 0).
\* Of the characters, the aliases h, j, k, l run the handlers the arrow keys
\* run, a character without a handler does what no event does, and d only
\* toggles the text overlay of the render: none of them is drawn
Keys == {"ESC", "Left", "Right", "Up", "Down"}

Chars == {"o", "p"}

Event(got, key, uch) == [got |-> got, key |-> key, uch |-> uch]

Events ==
    {Event(FALSE, "0", "None")}
        \cup {Event(TRUE, k, "None") : k \in Keys}
        \cup {Event(TRUE, "0", c) : c \in Chars}

\* Terminal.get_keydown_handler over the handlers Game.login installs
get_keydown_handler(keyvalue) ==
    CASE keyvalue \in {"Left", "h"}  -> "move_left"
      [] keyvalue \in {"Right", "l"} -> "move_right"
      [] keyvalue \in {"Up", "k"}    -> "move_up"
      [] keyvalue \in {"Down", "j"}  -> "move_down"
      [] keyvalue = "o"              -> "expand"
      [] keyvalue = "p"              -> "shrink"
      [] keyvalue = "d"              -> "change_size"
      [] OTHER                       -> "None"

\* the closures of Game.login
closure(w, handler) ==
    CASE handler = "move_left"   -> [w EXCEPT !.player = move(@, "Left", None)]
      [] handler = "move_right"  -> [w EXCEPT !.player = move(@, "Right", None)]
      [] handler = "move_up"     -> [w EXCEPT !.player = move(@, "Up", None)]
      [] handler = "move_down"   -> [w EXCEPT !.player = move(@, "Down", None)]
      [] handler = "expand"      -> [w EXCEPT !.player = expand(@)]
      [] handler = "shrink"      -> [w EXCEPT !.player = shrink(@)]
      [] handler = "change_size" -> [w EXCEPT !.debug = ~@]

\* "if cb: cb(key)"
cb(w, handler) ==
    IF handler = "None" THEN w ELSE closure(w, handler)

\* a terminal_on_shutdown that returns without raising
terminal_on_shutdown_quiet(w) == Did(w, "on_shutdown", -1, FALSE)

\* Game.__init__.terminal_on_shutdown
terminal_on_shutdown(w) ==
    [Did(w, "on_shutdown", -1, FALSE) EXCEPT !.exc = "GameExit"]

\* an ESC test that signals the shutdown and leaves the backend open
key_pressed_open(w, ev) ==
    IF ev.key = "ESC" THEN terminal_on_shutdown(w) ELSE w

\* peek_key_event, "if key is not None": the handler of the key, then the
\* ESC test
key_pressed(w, ev) ==
    IF ev.key = "ESC" THEN terminal_on_shutdown(Terminal_close(w)) ELSE w

\* peek_key_event, "if uch"
uch_pressed(w, ev) ==
    IF w.exc # "None" THEN w
    ELSE IF ev.uch # "None" THEN cb(w, get_keydown_handler(ev.uch))
    ELSE w

\* a peek_key_event whose except clause lets the TypeError through
peek_key_event_raising(w, ev) ==
    IF w.tb = "None" THEN [w EXCEPT !.exc = "RuntimeError"]
    ELSE IF ~ev.got
    THEN [Did(Did(w, "peek_event", -1, FALSE), "except TypeError", -1, FALSE)
            EXCEPT !.exc = "TypeError"]
    ELSE uch_pressed(
            key_pressed(cb(Did(w, "peek_event", -1, FALSE),
                           get_keydown_handler(ev.key)), ev),
            ev)

\* Terminal.peek_key_event; without an event the unpacking raises TypeError,
\* which the except clause swallows
peek_key_event(w, ev) ==
    IF w.tb = "None" THEN [w EXCEPT !.exc = "RuntimeError"]
    ELSE IF ~ev.got
    THEN Did(Did(w, "peek_event", -1, FALSE), "except TypeError", -1, FALSE)
    ELSE uch_pressed(
            key_pressed(cb(Did(w, "peek_event", -1, FALSE),
                           get_keydown_handler(ev.key)), ev),
            ev)

\* the rectangle Renderable.render tests against the terrain
trajectory_of(self) ==
    IF self.direction # "None"
    THEN make_trajectory(self, get_rect(self))
    ELSE get_rect(self)

\* a rollback that leaves the object where it is
rollback_nowhere(self) == self

\* self.pos = self.prev_pos or self.pos
rollback(self) ==
    [self EXCEPT !.pos = IF self.prev_pos # None THEN self.prev_pos ELSE self.pos]

\* the width and the height the backend reports for the terminal
TerminalWidth == 80

TerminalHeight == 24

\* Terminal.center
center == Vector2(TerminalWidth \div 2, TerminalHeight \div 2)

\* the (dx, dy) render_objects passes to every render it makes: the
\* player's position on its entry, less the centre of the terminal
camera(w) ==
    Vector2(w.player.pos[1] - center[1], w.player.pos[2] - center[2])

\* the cells Renderable.render builds for the rectangle rect: one for every
\* grid point of it, dx to the left and dy above
cells_of(rect, dxdy) ==
    {Vector2(x - dxdy[1], y - dxdy[2]) :
        x \in rect.x1..rect.x2, y \in rect.y1..rect.y2}

\* the history entry of a call made on the object self with (dx, dy) = dxdy
Called(w, op, obj, check, self, dxdy) ==
    [w EXCEPT !.trace =
        Append(@, [Step(op, obj, check, self) EXCEPT !.camera = dxdy])]

\* Renderable.render of the object o.  The rectangle and the colours of the
\* cells are taken on entry, before the position is rolled back, and the
\* cells are passed to render(tm, cells) after the retry has returned: the
\* "render_cells" entry keeps the object they were taken from
RECURSIVE render(_, _, _, _)
render(w, o, dxdy, check_intersect) ==
    IF check_intersect /\ intersectd_with_rect(data, trajectory_of(Obj(w, o)))
    THEN Called(
            render(SetObj(Called(w, "render", o, check_intersect, Obj(w, o), dxdy),
                          o, rollback(Obj(w, o))),
                   o, dxdy, FALSE),
            "render_cells", o, check_intersect, Obj(w, o), dxdy)
    ELSE Called(Called(w, "render", o, check_intersect, Obj(w, o), dxdy),
                "render_cells", o, check_intersect, Obj(w, o), dxdy)

\* Map.render
Map_render(w, dxdy) == Called(w, "Map.render", -1, FALSE, Nobody, dxdy)

\* the loop of render_objects over a list of game objects
RECURSIVE render_each(_, _, _)
render_each(w, objects, dxdy) ==
    IF objects = <<>> THEN w
    ELSE render_each(render(w, Head(objects), dxdy, TRUE), Tail(objects), dxdy)

\* render_objects over a list of game objects
render_objects(w, objects) ==
    IF w.exc # "None" THEN w
    ELSE IF w.tb = "None" THEN [w EXCEPT !.exc = "RuntimeError"]
    ELSE render_each(w, objects, camera(w))

\* render_objects(self, [self.map])
render_map(w) ==
    IF w.exc # "None" THEN w
    ELSE IF w.tb = "None" THEN [w EXCEPT !.exc = "RuntimeError"]
    ELSE Map_render(w, camera(w))

\* render_objects(self, objects)
render_enemies(w) == render_objects(w, w.enemies)

\* render_objects(self, [player])
render_player(w) == render_objects(w, <<0>>)

\* tb.present(): the backend may fail, which raises out of Terminal.update
present(w, fault) ==
    IF w.exc # "None" THEN w
    ELSE IF fault THEN [w EXCEPT !.exc = "Exception"]
    ELSE Did(w, "present", -1, FALSE)

\* a Terminal.update that renders the player before the enemies
Terminal_update_player_first(w, ev) ==
    render_enemies(render_player(render_map(
        peek_key_event(Did(w, "clear", -1, FALSE), ev))))

\* Terminal.update up to, and without, tb.present()
Terminal_update(w, ev) ==
    render_player(render_enemies(render_map(
        peek_key_event(Did(w, "clear", -1, FALSE), ev))))

----------------------------------------------------------------------------
(* Simulation loop *)

\* the history of a collision pass before any pair is checked
NoChecks ==
    [was    |-> [e \in 1..EnemyCount |-> FALSE],
     being  |-> [e \in 1..EnemyCount |-> FALSE],
     result |-> [e \in 1..EnemyCount |-> "None"],
     log    |-> <<>>]

RECURSIVE check_all(_, _)
check_all(w, others) ==
    IF others = <<>> THEN w
    ELSE check_all(check_collision(w, Head(others)), Tail(others))

\* Game.update_collisions; Game.other_players is always empty
update_collisions(w) ==
    IF w.exc # "None" THEN w
    ELSE check_all(Did(w, "update_collisions", 0, FALSE), w.enemies)

\* a Game.update that keeps every enemy listed
prune_nobody(w) ==
    [w EXCEPT !.trace = Append(@, Step("prune", -1, FALSE, Nobody))]

\* the list comprehension of Game.update
prune(w) ==
    [w EXCEPT
        !.trace = Append(@, Step("prune", -1, FALSE, Nobody)),
        !.enemies = SelectSeq(@, LAMBDA e : ~w.enemy[e].being_destroyed)]

\* the world a tick starts from
World ==
    [player |-> player, enemy |-> enemy, enemies |-> enemies, tb |-> tb,
     debug |-> debug, exc |-> "None", trace |-> <<>>, last |-> NoChecks]

\* a Game.run whose except clauses leave the terminal open
after_update_open(w) ==
    IF w.exc = "None" THEN Did(w, "sleep", -1, FALSE)
    ELSE IF w.exc = "GameExit" THEN w
    ELSE Did(w, "logger.error", -1, FALSE)

\* Game.run after Game.update: time.sleep, or one of the except clauses
after_update(w) ==
    IF w.exc = "None" THEN Did(w, "sleep", -1, FALSE)
    ELSE IF w.exc = "GameExit" THEN w
    ELSE Did(Terminal_close(w), "logger.error", -1, FALSE)

\* the value Game.run returns, <<>> while it loops
returned(w) ==
    IF w.exc = "None" THEN <<>>
    ELSE IF w.exc = "GameExit" THEN <<StatusCode_GameExit>>
    ELSE <<Failure>>

\* the state after one pass of the loop that ends in the world w
Pass(w) ==
    /\ player' = w.player
    /\ enemy' = w.enemy
    /\ enemies' = w.enemies
    /\ tb' = w.tb
    /\ debug' = w.debug
    /\ trace' = w.trace
    /\ last' = w.last
    /\ pc' = IF w.exc = "None" THEN "running" ELSE "returned"
    /\ status' = returned(w)
    /\ UNCHANGED <<data, call, ret>>

\* Game.update from tb.present() on, w being the world before it
update_from_present(w) ==
    \E fault \in BOOLEAN : Pass(after_update(update_collisions(present(w, fault))))

\* one pass of the while loop of Game.run on the input event ev
run(ev) ==
    /\ pc = "running"
    /\ update_from_present(Terminal_update(prune(World), ev))

\* the terrain file of the game: 13 rows of 14 cells, all of them wall but
\* a room of 3 rows and 3 columns around the player's start
MapFile ==
    [row \in 1..(StartY + 3) |->
        [col \in 1..(StartX + 4) |->
            IF Abs(col - 1 - StartX) <= 1 /\ Abs(row - 1 - StartY) <= 1
            THEN " " ELSE "#"]]

\* the cells spawn_enemies may draw, among all of the map: the player's
\* start, and the wall cell below the room's lower right corner
SpawnCells ==
    {Vector2(StartX, StartY), Vector2(StartX + 2, StartY + 2)}

EnemyColors == {"Yellow"}

NoCall == [op |-> "None"]

\* Game.__init__
Init ==
    /\ data = load(MapFile)
    /\ player = Player(StartX, StartY)
    /\ enemy \in [1..EnemyCount ->
                    {Enemy(c[1], c[2], fg) : c \in SpawnCells, fg \in EnemyColors}]
    /\ enemies = [e \in 1..EnemyCount |-> e]
    /\ tb = "open"
    /\ debug = FALSE
    /\ pc = "running"
    /\ status = <<>>
    /\ trace = <<>>
    /\ last = NoChecks
    /\ call = NoCall
    /\ ret = <<>>

Next == \E ev \in Events : run(ev)

Spec == Init /\ [][Next]_vars

----------------------------------------------------------------------------
(* Functions applied in isolation: the game stands still in the state in   *)
(* which Game.__init__ leaves it, call holds the arguments of the latest   *)
(* application and ret its results.                                        *)

\* the object of identity o as it is now: 0 is the player
ObjNow(o) == IF o = 0 THEN player ELSE enemy[o]

Standing ==
    /\ tb = "open"
    /\ debug = FALSE
    /\ pc = "running"
    /\ status = <<>>
    /\ trace = <<>>
    /\ last = NoChecks

\* Map.intersectd_with on the points around a loaded terrain file

MapFiles == [1..MapRows -> [1..Span -> {" ", "#"}]]

Points == {Vector2(x, y) : x, y \in -(Span + 1)..(Span + 1)}

InitMap ==
    /\ data \in {load(f) : f \in MapFiles}
    /\ player = Player(StartX, StartY)
    /\ enemy = <<>>
    /\ enemies = <<>>
    /\ Standing
    /\ call = NoCall
    /\ ret = <<>>

Map_intersectd_with(pos) ==
    /\ call' = [op |-> "intersectd_with", pos |-> pos]
    /\ ret' = <<intersectd_with_pos(data, pos)>>
    /\ UNCHANGED <<data, player, enemy, enemies, tb, debug, pc, status, trace, last>>

NextMap == \E pos \in Points : Map_intersectd_with(pos)

SpecMap == InitMap /\ [][NextMap]_vars

\* the point lies outside the rows of the map, or outside its row
OutOfBounds(d, pos) ==
    \/ pos[2] < 0
    \/ pos[2] >= Len(d)
    \/ pos[1] < 0
    \/ pos[1] >= Len(d[pos[2] + 1])

\* C4: Map.intersectd_with(pos) returns true for every point outside the
\* map bounds, the points with a negative x or a negative y included,
\* whatever the terrain rows contain.
C4_OutsideIsBlocked ==
    (call.op = "intersectd_with" /\ OutOfBounds(data, call.pos)) => ret = <<TRUE>>

\* expand, shrink and the collision callbacks on the player and on an enemy

InitResize ==
    /\ data = load(MapFile)
    /\ player = Player(StartX, StartY)
    /\ enemy \in {<<Enemy(StartX, StartY, fg)>> : fg \in EnemyColors}
    /\ enemies = <<1>>
    /\ Standing
    /\ call = NoCall
    /\ ret = <<>>

\* the object o becomes self after the call op on it; call keeps the object
\* as it was
Applied(op, o, self) ==
    /\ call' = [op |-> op, obj |-> o, self |-> ObjNow(o)]
    /\ player' = IF o = 0 THEN self ELSE player
    /\ enemy' = IF o = 0 THEN enemy ELSE [enemy EXCEPT ![o] = self]
    /\ UNCHANGED <<data, enemies, tb, debug, pc, status, trace, last, ret>>

Expand(o) == Applied("expand", o, expand(ObjNow(o)))

Shrink(o) == Applied("shrink", o, shrink(ObjNow(o)))

PlayerEntered ==
    Applied("on_collision_entered", 0, Player_on_collision_entered(player))

PlayerExited ==
    Applied("on_collision_exited", 0, Player_on_collision_exited(player))

EnemyEntered ==
    Applied("on_collision_entered", 1, Enemy_on_collision_entered(enemy[1]))

EnemyExited ==
    Applied("on_collision_exited", 1, Enemy_on_collision_exited(enemy[1]))

NextResize ==
    \/ \E o \in {0, 1} : Expand(o)
    \/ \E o \in {0, 1} : Shrink(o)
    \/ PlayerEntered
    \/ PlayerExited
    \/ EnemyEntered
    \/ EnemyExited

SpecResize == InitResize /\ [][NextResize]_vars

\* the size an object of the size n has after the call op on the object o
C6_SizeAfter(op, o, n) ==
    CASE op = "expand" -> IF n = 19 THEN 19 ELSE n + 2
      [] op = "shrink" -> IF n = 1 THEN 1 ELSE n - 2
      [] op = "on_collision_entered" /\ o = 0 -> IF n = 19 THEN 19 ELSE n + 2
      [] OTHER -> n

\* C6: after any sequence of expand, shrink and collision callbacks the
\* size of the player and of the enemy is an odd integer from 1 to 19;
\* expand, and the player's on_collision_entered, add 2 unless the size is
\* 19, which they leave; shrink subtracts 2 unless the size is 1, which it
\* leaves; the other callbacks leave the size alone.
C6_SizeStaysInRange ==
    /\ \A o \in {0, 1} :
        /\ ObjNow(o).size \in 1..19
        /\ ObjNow(o).size % 2 = 1
        /\ ObjNow(o).size \in Size
    /\ call.op # "None" =>
        /\ ObjNow(call.obj).size = C6_SizeAfter(call.op, call.obj, call.self.size)
        /\ ObjNow(1 - call.obj).size \in Size

\* expand has left a player of the largest size as it is, while the enemy
\* has been brought back to the smallest
C6_Witness ==
    /\ call.op = "expand" /\ call.obj = 0
    /\ call.self.size = MaxSize
    /\ player.size = MaxSize
    /\ enemy[1].size = MinSize
    /\ enemy[1].being_destroyed

\* collide on two objects, each passed as it is or as its trajectory Rect

Positioned(cells, directions) ==
    {[GameObject("Player", c[1], c[2], "Red", "Red")
        EXCEPT !.size = n, !.direction = d] :
        c \in cells, n \in {1, 3}, d \in directions}

Forms == {"self", "trajectory"}

\* the argument collide receives for the object o in the form given
Arg(o, form) ==
    IF form = "trajectory" THEN make_trajectory(o, get_rect(o)) ELSE o

InitCollide ==
    /\ data = load(MapFile)
    /\ player = Player(StartX, StartY)
    /\ enemy = <<>>
    /\ enemies = <<>>
    /\ Standing
    /\ call \in [op : {"collide"},
                  a : Positioned({Vector2(0, 0)}, Dirs \cup {"None"}),
                  aform : Forms,
                  b : Positioned({Vector2(x, y) : x, y \in -Span..Span},
                                 {"None", "Left", "Up"}),
                  bform : Forms]
    /\ ret = <<>>

Collide ==
    /\ ret = <<>>
    /\ ret' = <<collide(Arg(call.a, call.aform), Arg(call.b, call.bform)),
                collide(Arg(call.b, call.bform), Arg(call.a, call.aform))>>
    /\ UNCHANGED <<data, player, enemy, enemies, tb, debug, pc, status, trace,
                   last, call>>

NextCollide == Collide

SpecCollide == InitCollide /\ [][NextCollide]_vars

\* C7: collide(a, b) equals collide(b, a) for every pair of positioned
\* arguments, each an object or the trajectory Rect of one.
C7_CollideSymmetric == ret # <<>> => ret[1] = ret[2]

\* collide has found a trajectory Rect and a larger object at another
\* position overlapping, in either order
C7_Witness ==
    /\ ret = <<TRUE, TRUE>>
    /\ call.aform = "trajectory" /\ call.bform = "self"
    /\ call.a.size = 1 /\ call.b.size = 3
    /\ call.a.direction = "Up"
    /\ call.b.pos # call.a.pos

\* twice the distance of the arguments' positions on the axis i is less than
\* the sum of the two extents: the distance is less than their exact average
CloserThanAverage(lhs, rhs, i, extents) ==
    2 * Abs(get_pos(lhs)[i] - get_pos(rhs)[i]) < extents

\* C11: collide(a, b) is true exactly when the x distance of the positions
\* is strictly less than the exact average of the widths and the y distance
\* strictly less than the exact average of the heights, the trajectory Rect
\* of a vertical move, whose height is even, included.
C11_ExactAverage ==
    ret # <<>> =>
        (ret[1] <=>
            /\ CloserThanAverage(Arg(call.a, call.aform), Arg(call.b, call.bform), 1,
                    get_width(Arg(call.a, call.aform))
                        + get_width(Arg(call.b, call.bform)))
            /\ CloserThanAverage(Arg(call.a, call.aform), Arg(call.b, call.bform), 2,
                    get_height(Arg(call.a, call.aform))
                        + get_height(Arg(call.b, call.bform))))

\* collide on objects that may have no position.  Here a coordinate that may
\* be None is written as a tuple: None itself, or <<n>> for the integer n

Optional(values) == {None} \cup {<<n>> : n \in values}

\* the object with its coordinates as integers
Positions(o) == [o EXCEPT !.pos = Vector2(o.pos[1][1], o.pos[2][1])]

\* collide(lhs, rhs) as a call that may raise: "not pos" holds of None alone,
\* as Vector2 defines neither __bool__ nor __len__, and the subtraction of
\* a None coordinate raises TypeError
collide_call(lhs, rhs) ==
    IF lhs.pos = None \/ rhs.pos = None THEN "False"
    ELSE IF None \in {lhs.pos[1], rhs.pos[1], lhs.pos[2], rhs.pos[2]}
    THEN "TypeError"
    ELSE IF collide(Positions(lhs), Positions(rhs)) THEN "True"
    ELSE "False"

\* GameObject(x, y) for every choice of coordinates, None included, and an
\* object whose pos is still the None of Renderable.__init__
MaybePositioned ==
    {[GameObject("Player", x, y, "Red", "Red") EXCEPT !.size = n] :
        x \in Optional(-Span..Span), y \in Optional(-Span..Span), n \in {1, 3}}
    \cup {[GameObject("Player", None, None, "Red", "Red") EXCEPT !.pos = None]}

InitNoPosition ==
    /\ data = load(MapFile)
    /\ player = Player(StartX, StartY)
    /\ enemy = <<>>
    /\ enemies = <<>>
    /\ Standing
    /\ call \in [op : {"collide"}, a : MaybePositioned, b : MaybePositioned]
    /\ ret = <<>>

CollideCall ==
    /\ ret = <<>>
    /\ ret' = <<collide_call(call.a, call.b)>>
    /\ UNCHANGED <<data, player, enemy, enemies, tb, debug, pc, status, trace,
                   last, call>>

NextNoPosition == CollideCall

SpecNoPosition == InitNoPosition /\ [][NextNoPosition]_vars

\* the object has no position: its pos is None, or the Vector2(None, None)
\* of an object constructed without coordinates
NoPosition(o) == o.pos = None \/ o.pos = Vector2(None, None)

\* C18: collide(a, b) returns false, and does not raise, whenever one of
\* its arguments has no position yet, an object constructed without
\* coordinates included.
C18_FalseWithoutPosition ==
    (ret # <<>> /\ (NoPosition(call.a) \/ NoPosition(call.b))) => ret = <<"False">>

\* Renderable.move on the player, by a direction or to a position

Reach(pos) ==
    /\ Abs(pos[1] - StartX) <= Span
    /\ Abs(pos[2] - StartY) <= Span

InitMove ==
    /\ data = load(MapFile)
    /\ player = Player(StartX, StartY)
    /\ enemy = <<>>
    /\ enemies = <<>>
    /\ Standing
    /\ call = NoCall
    /\ ret = <<>>

Moved(direction, pos) ==
    /\ Reach(move(player, direction, pos).pos)
    /\ call' = [op |-> "move", direction |-> direction, pos |-> pos,
                self |-> player]
    /\ player' = move(player, direction, pos)
    /\ UNCHANGED <<data, enemy, enemies, tb, debug, pc, status, trace, last, ret>>

MoveBy(direction) == Moved(direction, None)

MoveTo(pos) == Moved("None", pos)

NextMove ==
    \/ \E direction \in Dirs : MoveBy(direction)
    \/ \E pos \in {Vector2(StartX, StartY), Vector2(StartX + 1, StartY - 1)} :
            MoveTo(pos)

SpecMove == InitMove /\ [][NextMove]_vars

\* C8: move(direction) sets prev_direction to the old direction, direction
\* to the new one and prev_pos to the old position; Left takes 2 from x and
\* Right adds 2 to it, leaving y; Up takes 1 from y and Down adds 1 to it,
\* leaving x; move(pos=p) sets pos to p, prev_pos to the old position and
\* prev_direction to the direction, which it keeps.
C8_MoveSteps ==
    call.op = "move" =>
        /\ player.prev_direction = call.self.direction
        /\ player.prev_pos = call.self.pos
        /\ call.direction = "Left" =>
            player.pos = <<call.self.pos[1] - 2, call.self.pos[2]>>
        /\ call.direction = "Right" =>
            player.pos = <<call.self.pos[1] + 2, call.self.pos[2]>>
        /\ call.direction = "Up" =>
            player.pos = <<call.self.pos[1], call.self.pos[2] - 1>>
        /\ call.direction = "Down" =>
            player.pos = <<call.self.pos[1], call.self.pos[2] + 1>>
        /\ call.direction # "None" => player.direction = call.direction
        /\ call.pos # None =>
            /\ player.pos = call.pos
            /\ player.direction = call.self.direction
        /\ player.size = call.self.size

\* the player that started at (10, 10) has moved Right to (12, 10) and then
\* Up to (12, 9)
C8_Witness ==
    /\ call.op = "move" /\ call.direction = "Up"
    /\ call.self.prev_pos = <<10, 10>>
    /\ call.self.pos = <<12, 10>>
    /\ call.self.direction = "Right"
    /\ player.pos = <<12, 9>>
    /\ player.prev_pos = <<12, 10>>
    /\ player.prev_direction = "Right"

\* Renderable.get_rect, the Rect accessors and Renderable.make_trajectory on
\* an object of any size, position and direction

InitRect ==
    /\ data = load(MapFile)
    /\ player \in {[Player(x, y) EXCEPT !.size = n, !.direction = d] :
                        x \in -Span..Span, y \in -Span..Span,
                        n \in Size, d \in Dirs \cup {"None"}}
    /\ enemy = <<>>
    /\ enemies = <<>>
    /\ Standing
    /\ call = NoCall
    /\ ret = <<>>

Returned(op, results) ==
    /\ call' = [op |-> op]
    /\ ret' = results
    /\ UNCHANGED <<data, player, enemy, enemies, tb, debug, pc, status, trace, last>>

\* rect = self.get_rect(), then its get_center(), get_pos(), get_width()
\* and get_height()
GetRect ==
    Returned("get_rect",
        <<get_rect(player),
          Rect_get_center(get_rect(player)),
          Rect_get_pos(get_rect(player)),
          Rect_get_width(get_rect(player)),
          Rect_get_height(get_rect(player))>>)

\* self.make_trajectory(rect=self.get_rect())
MakeTrajectory ==
    Returned("make_trajectory",
        <<get_rect(player), make_trajectory(player, get_rect(player))>>)

NextRect == GetRect \/ MakeTrajectory

SpecRect == InitRect /\ [][NextRect]_vars

\* C12: Rect.get_center and get_pos return the midpoint of the rectangle,
\* which for the rectangle get_rect builds is the entity's position;
\* get_rect yields x1 <= x2 and y1 <= y2 with width = height = size.
C12_CentreIsMidpoint ==
    call.op = "get_rect" =>
        /\ 2 * ret[2][1] = ret[1].x1 + ret[1].x2
        /\ 2 * ret[2][2] = ret[1].y1 + ret[1].y2
        /\ ret[2] = player.pos
        /\ ret[3] = ret[2]
        /\ ret[1].x1 <= ret[1].x2 /\ ret[1].y1 <= ret[1].y2
        /\ ret[4] = player.size /\ ret[5] = player.size

\* C13 as stated: make_trajectory moves exactly one edge of the rectangle
\* inward: Left takes 2 from x2, Right adds 2 to x1, Up and Down move one
\* horizontal edge inward by 1 (either reading of which of y1 and y2 is the
\* top is accepted), and no direction leaves the rectangle as it is.
C13_OneEdgeInward ==
    call.op = "make_trajectory" =>
        /\ player.direction = "Left" => ret[2] = [ret[1] EXCEPT !.x2 = @ - 2]
        /\ player.direction = "Right" => ret[2] = [ret[1] EXCEPT !.x1 = @ + 2]
        /\ player.direction \in {"Up", "Down"} =>
            \/ ret[2] = [ret[1] EXCEPT !.y1 = @ + 1]
            \/ ret[2] = [ret[1] EXCEPT !.y2 = @ - 1]
        /\ player.direction = "None" => ret[2] = ret[1]

\* C13, amended: make_trajectory returns the rectangle with one coordinate
\* changed and the three others kept: Left adds 2 to x2 and Right takes 2
\* from x1, which moves that edge outward; Up adds 1 to y1 and Down takes 1
\* from y2, which moves that edge inward; no direction changes nothing.
C13_TrajectoryEdges ==
    call.op = "make_trajectory" =>
        /\ player.direction = "Left" => ret[2] = [ret[1] EXCEPT !.x2 = @ + 2]
        /\ player.direction = "Right" => ret[2] = [ret[1] EXCEPT !.x1 = @ - 2]
        /\ player.direction = "Up" => ret[2] = [ret[1] EXCEPT !.y1 = @ + 1]
        /\ player.direction = "Down" => ret[2] = [ret[1] EXCEPT !.y2 = @ - 1]
        /\ player.direction = "None" => ret[2] = ret[1]
        /\ ret[1] = get_rect(player)

\* the trajectory of an object of size 3 that moved Left reaches 2 cells
\* further to the right than its rectangle
C13_Witness ==
    /\ call.op = "make_trajectory"
    /\ player.direction = "Left" /\ player.size = 3
    /\ Rect_get_width(ret[1]) = 3
    /\ Rect_get_width(ret[2]) = 5
    /\ ret[2].x1 = ret[1].x1

----------------------------------------------------------------------------
(* Properties of the collision engine *)

\* the identities a list of enemies holds
ActiveOf(list) == {list[i] : i \in 1..Len(list)}

\* how many times the callback name ran on the receiver on, for the pair of
\* the enemy e, in a collision pass
Fired(log, name, on, e) ==
    Cardinality({i \in 1..Len(log) : log[i] = Callback(name, on, e)})

\* a tick that ran its collision pass has just ended
Collided == pc = "running" /\ trace # <<>>

\* the player as update_collisions received it in the latest tick
PlayerBefore == trace[Len(trace) - 1].self

\* the pair of the i-th active enemy went from apart to overlapping in the
\* step, by the flags the player stores
EnteredNow(i) ==
    /\ ~dict_get(player.collisions, enemies'[i])
    /\ dict_get(player'.collisions, enemies'[i])

\* the overlap check_collision computes for the player p and another object
Overlaps(p, other) == collide(make_trajectory(p, get_rect(p)), other)

\* the player p after entered callbacks took it from the size n
Grown(p, n, entered) == [p EXCEPT !.size = Min(MaxSize, n + 2 * entered)]

\* the raw overlap check_collision computed for the i-th active enemy in the
\* step's tick: the player has grown once for every pair that entered
\* before it in the list
RawOverlap(i) ==
    Overlaps(Grown(player', PlayerBefore'.size,
                   Cardinality({j \in 1..(i - 1) : EnteredNow(j)})),
             enemy'[enemies'[i]])

C1_Pair(e) ==
    /\ Fired(last'.log, "on_collision_entered", 0, e)
         = IF /\ Collided' /\ e \in ActiveOf(enemies')
              /\ ~dict_get(player.collisions, e) /\ last'.being[e]
           THEN 1 ELSE 0
    /\ Fired(last'.log, "on_collision_exited", 0, e)
         = IF /\ Collided' /\ e \in ActiveOf(enemies')
              /\ dict_get(player.collisions, e) /\ ~last'.being[e]
           THEN 1 ELSE 0
    /\ Fired(last'.log, "on_collision_entered", e, 0)
         = Fired(last'.log, "on_collision_entered", 0, e)
    /\ Fired(last'.log, "on_collision_exited", e, 0)
         = Fired(last'.log, "on_collision_exited", 0, e)
    /\ Len(last'.log)
         = 2 * Cardinality({f \in 1..EnemyCount :
                              last'.result[f] \in {"Entered", "Exited"}})
    /\ (last.result[e] # "None" /\ last.being[e] /\ last'.being[e])
         => Fired(last'.log, "on_collision_entered", 0, e) = 0

\* C1: in every tick, on_collision_entered runs exactly once (on each party)
\* for a pair whose stored state is not-colliding and whose overlap is true,
\* on_collision_exited exactly once for a pair stored as colliding whose
\* overlap is false, and no callback runs otherwise; a pair that overlapped
\* in the previous tick and still overlaps gets no entered callback.
C1_OncePerEdge == [][\A e \in 1..EnemyCount : C1_Pair(e)]_vars

\* a pair has exited while another stayed in collision without a callback
C1_Witness ==
    \E e, f \in 1..EnemyCount :
        /\ last.result[e] = "BeingCollided"
        /\ last.result[f] = "Exited"
        /\ Len(last.log) = 2

C2_Entry(e, raw) ==
    /\ dict_get(player'.collisions, e) = raw
    /\ last'.being[e] = raw
    /\ last'.was[e] = dict_get(player.collisions, e)
    /\ last'.result[e] \in {"BeingCollided", "NotCollided"}
         => /\ (e \in DOMAIN player'.collisions) = (e \in DOMAIN player.collisions)
            /\ dict_get(player'.collisions, e) = dict_get(player.collisions, e)

C2_Pair(i) == C2_Entry(enemies'[i], RawOverlap(i))

\* C2: after the collision pass of a tick, the flag the player stores for
\* every active pair equals the raw overlap computed for the pair in that
\* tick, whichever of the four states was returned; when the state is
\* BeingCollided or NotCollided the stored entry is the one from before.
C2_FlagIsOverlap ==
    [][Collided' => \A i \in 1..Len(enemies') : C2_Pair(i)]_vars

\* every state has been returned with the flag equal to the overlap: a pair
\* is stored as apart after an exit while another is stored as colliding
C2_Witness ==
    /\ Collided
    /\ \E e, f \in ActiveOf(enemies) :
        /\ last.result[e] = "Exited" /\ ~player.collisions[e]
        /\ last.result[f] = "BeingCollided" /\ player.collisions[f]

\* C3: an enemy leaves the active list in a tick exactly when its pair
\* returned Exited in the tick before, the list only ever shrinks, and an
\* enemy whose pair exits is still listed when that tick ends.
C3_PrunedAfterExit ==
    [][/\ \A e \in 1..EnemyCount :
            /\ (e \in ActiveOf(enemies) /\ e \notin ActiveOf(enemies'))
                 <=> last.result[e] = "Exited"
            /\ last.result[e] = "Exited"
                 <=> (e \in ActiveOf(enemies) /\ enemy[e].being_destroyed)
            /\ last'.result[e] = "Exited" => e \in ActiveOf(enemies')
       /\ ActiveOf(enemies') \subseteq ActiveOf(enemies)
       /\ enemies' = SelectSeq(enemies, LAMBDA e : last.result[e] # "Exited")]_vars

\* an enemy has been removed while another one stays listed
C3_Witness ==
    \E e, f \in 1..EnemyCount :
        /\ e \notin ActiveOf(enemies) /\ enemy[e].being_destroyed
        /\ f \in ActiveOf(enemies)

\* the colours the player has after the callbacks of a collision pass, from
\* the colours <<fg, bg>> it had before
C16_Colours(log, before) ==
    IF log = <<>> THEN before
    ELSE IF log[Len(log) - 1].name = "on_collision_entered" THEN <<"Green", "Green">>
    ELSE <<"Red", "Red">>

C16_Player(before, entered) ==
    /\ player'.size = Min(19, before.size + 2 * entered)
    /\ <<player'.fg, player'.bg>> = C16_Colours(last'.log, <<before.fg, before.bg>>)
    /\ player'.pos = before.pos

C16_Enemy(e) ==
    /\ (Collided' /\ last'.result[e] = "Entered")
         => enemy'[e].fg = "Green" /\ ~enemy'[e].being_destroyed
    /\ (Collided' /\ last'.result[e] = "Exited")
         => enemy'[e].fg = "Blue" /\ enemy'[e].being_destroyed
    /\ (enemy'[e].being_destroyed /\ ~enemy[e].being_destroyed)
         => Collided' /\ last'.result[e] = "Exited"
    /\ enemy'[e].size = enemy[e].size

\* C16: after the collision pass of a tick the player's size is the size
\* it entered the pass with plus 2 for every pair that entered, capped at
\* 19, and its colours are Green if the last callback it got was an
\* entered one, Red if it was an exited one, and unchanged without a
\* callback; an enemy whose pair entered has a Green foreground and is not
\* destroyed, one whose pair exited is marked being_destroyed, and no other
\* step sets that mark.
C16_CallbackEffects ==
    [][/\ Collided' =>
            C16_Player(PlayerBefore',
                Cardinality({e \in 1..EnemyCount : last'.result[e] = "Entered"}))
       /\ \A e \in 1..EnemyCount : C16_Enemy(e)]_vars

\* two pairs have entered in one tick: the player has grown by two steps
C16_Witness ==
    /\ Collided
    /\ \A e \in 1..2 : last.result[e] = "Entered" /\ enemy[e].fg = "Green"
    /\ player.size = PlayerBefore.size + 4
    /\ player.fg = "Green"

----------------------------------------------------------------------------
(* Properties of the render pass *)

\* the positions in the latest tick's history of the calls named op
StepsOf(op) == {i \in 1..Len(trace) : trace[i].op = op}

\* the i-th step of the latest tick entered render with check_intersect
\* enabled on an object whose trajectory rectangle intersects terrain
Blocked(i) ==
    /\ trace[i].op = "render"
    /\ trace[i].check
    /\ intersectd_with_rect(data, trajectory_of(trace[i].self))

\* the step after the i-th is the retry of its render, on the object s
RetriedWith(i, s) ==
    /\ i < Len(trace)
    /\ trace[i + 1] =
        [Step("render", trace[i].obj, FALSE, s) EXCEPT !.camera = trace[i].camera]
    /\ ObjNow(trace[i].obj).pos = s.pos

\* C5 as stated: whenever render runs with check_intersect enabled on an
\* object whose trajectory rectangle intersects terrain, the object ends the
\* frame with pos equal to prev_pos.
C5_EndsAtPrevPos ==
    \A i \in 1..Len(trace) :
        Blocked(i) => ObjNow(trace[i].obj).pos = trace[i].self.prev_pos

C5_Render(i) ==
    /\ Blocked(i) /\ trace[i].self.prev_pos # None
         => RetriedWith(i, [trace[i].self EXCEPT !.pos = trace[i].self.prev_pos])
    /\ Blocked(i) /\ trace[i].self.prev_pos = None
         => RetriedWith(i, trace[i].self)
    /\ trace[i].op = "render" /\ trace[i].check /\ ~Blocked(i)
         => /\ ObjNow(trace[i].obj).pos = trace[i].self.pos
            /\ i < Len(trace) => ~(trace[i + 1].op = "render" /\ ~trace[i + 1].check)
    /\ trace[i].op = "render" /\ ~trace[i].check
         => i > 1 /\ Blocked(i - 1) /\ trace[i - 1].obj = trace[i].obj
    /\ trace[i].op = "render"
         => Cardinality({j \in StepsOf("render") : trace[j].obj = trace[i].obj}) <= 2

\* C5, amended: when render runs with check_intersect enabled on an object
\* whose trajectory rectangle intersects terrain, the object ends the frame
\* at prev_pos if it has one and where it is if prev_pos is None; the retry
\* follows at once with check_intersect disabled, a retry is made for no
\* other reason, and render is entered at most twice per object per frame.
C5_RollbackOnce == \A i \in 1..Len(trace) : C5_Render(i)

\* in one frame the player was moved back to its previous position and an
\* enemy that never moved stayed inside the wall
C5_Witness ==
    \E i, j \in 1..Len(trace) :
        /\ Blocked(i) /\ trace[i].obj = 0
        /\ trace[i].self.prev_pos # None
        /\ trace[i].self.prev_pos # trace[i].self.pos
        /\ player.pos = trace[i].self.prev_pos
        /\ Blocked(j) /\ trace[j].obj # 0
        /\ trace[j].self.prev_pos = None
        /\ trace[j + 1].op = "render" /\ ~trace[j + 1].check

\* C15: in every frame the cells render emits for an entity's body are
\* exactly one per grid point of its bounding rectangle at its final,
\* possibly rolled-back, position, each dx to the left and dy above; none is
\* emitted for the rectangle from before a rollback.
C15_CellsAtFinalPosition ==
    \A i \in StepsOf("render_cells") :
        cells_of(get_rect(trace[i].self), trace[i].camera)
            = cells_of(get_rect([trace[i].self EXCEPT
                                    !.pos = ObjNow(trace[i].obj).pos]),
                       trace[i].camera)

\* C19: the player starts with no corner of its bounding rectangle on
\* blocking or out-of-bounds terrain, and after every tick none of the four
\* corners lies on such a cell: the trajectory check and the rollback keep
\* the player out of terrain.
C19_PlayerOutOfTerrain == ~intersectd_with_rect(data, get_rect(player))

\* C22: at the end of every tick the player's colour is Green exactly when
\* at least one flag stored in player.collisions is true, also when several
\* enemies enter and exit overlap in different ticks.
C22_GreenWhileOverlapping ==
    Collided =>
        (player.fg = "Green"
            <=> \E e \in 1..EnemyCount : dict_get(player.collisions, e))

\* how far the enemy e is in its life, with the player p: 0 while its pair
\* has not entered, 1 while the pair is stored as colliding, 2 once it is
\* being destroyed
Phase(p, en, e) ==
    IF en[e].being_destroyed THEN 2
    ELSE IF dict_get(p.collisions, e) THEN 1
    ELSE 0

C20_Enemy(e) ==
    /\ enemy[e].being_destroyed =>
          /\ enemy'[e].being_destroyed
          /\ e \notin ActiveOf(enemies')
          /\ \A i \in 1..Len(trace') : trace'[i].obj # e
          /\ last'.result[e] = "None"
    /\ Phase(player', enemy', e) >= Phase(player, enemy, e)
    /\ last'.result[e] = "Entered"
          <=> (Phase(player, enemy, e) = 0 /\ Phase(player', enemy', e) = 1)
    /\ last'.result[e] = "Exited"
          <=> (Phase(player, enemy, e) = 1 /\ Phase(player', enemy', e) = 2)

\* C20: an enemy that is being destroyed is not rendered and not passed to
\* check_collision in any later tick, and stays being destroyed; the active
\* list gains no member and does not get longer; and the pair of an enemy
\* returns Entered only on its way from never collided to colliding and
\* Exited only on its way from colliding to being destroyed, none of which
\* is ever left backwards, so each happens at most once per enemy.
C20_DestroyedIsGone ==
    [][/\ \A e \in 1..EnemyCount : C20_Enemy(e)
       /\ ActiveOf(enemies') \subseteq ActiveOf(enemies)
       /\ Len(enemies') <= Len(enemies)]_vars

\* a tick has rendered and checked one enemy while another one, destroyed
\* before, is off the list
C20_Witness ==
    \E e, f \in 1..EnemyCount :
        /\ enemy[e].being_destroyed /\ e \notin ActiveOf(enemies)
        /\ f \in ActiveOf(enemies)
        /\ last.result[f] # "None" /\ last.result[e] = "None"
        /\ \E i \in StepsOf("render") : trace[i].obj = f

----------------------------------------------------------------------------
(* Properties of the loop *)

\* the calls of the latest tick that Game.update, Terminal.update and
\* render_objects make themselves: all but the retries of render and the
\* cells a render passes on
TopCalls ==
    SelectSeq(trace,
              LAMBDA s : /\ s.op \notin {"render_cells", "except TypeError"}
                         /\ s.op = "render" => s.check)

\* what TopCalls is up to the render of the player, for a tick that polled
\* no ESC
UpToPlayer ==
    <<"prune", "clear", "peek_event", "Map.render">>
        \o [i \in 1..Len(enemies) |-> "render"] \o <<"render">>

\* the enemies of the pairs with a callback in the latest collision pass, in
\* the order in which the player's callbacks ran
Notified ==
    [i \in 1..(Len(last.log) \div 2) |-> last.log[2 * i - 1].other]

\* C14: a tick that runs to its end prunes, clears, polls once, renders the
\* map, then every listed enemy in list order, then the player, presents,
\* and then checks the collisions of exactly the listed enemies, in list
\* order, with the player at the position the input and the rollback left
\* it at; a tick that ends early has gone through a prefix of these steps.
C14_TickOrder ==
    /\ Collided =>
        /\ [i \in 1..Len(TopCalls) |-> TopCalls[i].op]
             = UpToPlayer \o <<"present", "update_collisions", "sleep">>
        /\ [i \in 1..(Len(enemies) + 1) |-> TopCalls[4 + i].obj] = enemies \o <<0>>
        /\ \A e \in 1..EnemyCount :
              last.result[e] # "None" <=> e \in ActiveOf(enemies)
        /\ Notified = SelectSeq(enemies,
                LAMBDA e : last.result[e] \in {"Entered", "Exited"})
        /\ PlayerBefore.pos = player.pos
        /\ PlayerBefore.direction = player.direction
        /\ \A i \in StepsOf("render") :
              (trace[i].obj = 0 /\ trace[i + 1].op = "render_cells")
                  => trace[i].self.pos = PlayerBefore.pos
    /\ status = <<Failure>> =>
        [i \in 1..Len(TopCalls) |-> TopCalls[i].op]
            = UpToPlayer \o <<"close", "logger.error">>
    /\ status = <<StatusCode_GameExit>> =>
        [i \in 1..Len(TopCalls) |-> TopCalls[i].op]
            = <<"prune", "clear", "peek_event", "close", "on_shutdown">>
    /\ \A i \in StepsOf("prune") : i = 1

\* the player as the latest tick's render_objects(self, [player]) found it
PlayerRendered ==
    trace[CHOOSE i \in StepsOf("render") : trace[i].obj = 0 /\ trace[i].check].self

\* C17: a poll that yields no decodable event raises a TypeError that
\* peek_key_event swallows: no handler runs, so the render pass finds the
\* position, direction and size of the player as they were before the tick;
\* the map, the enemies and the player of the tick are rendered; unless the
\* backend then fails to present, the collisions are checked and run stays
\* in its loop; and the tick does not end in GameExit.
C17_PollErrorSwallowed ==
    [][StepsOf("except TypeError")' # {} =>
        /\ Len(TopCalls') >= Len(UpToPlayer')
        /\ [i \in 1..Len(UpToPlayer') |-> TopCalls'[i].op] = UpToPlayer'
        /\ PlayerRendered' = player
        /\ enemies' = SelectSeq(enemies, LAMBDA e : ~enemy[e].being_destroyed)
        /\ StepsOf("present")' # {} <=> Collided'
        /\ StepsOf("present")' # {} <=> pc' = "running"
        /\ status' # <<StatusCode_GameExit>>
        /\ StepsOf("on_shutdown")' = {}]_vars

\* a tick without an input event has run to its end: the player, which had
\* moved Up before, was rendered and checked against a listed enemy
C17_Witness ==
    /\ StepsOf("except TypeError") # {}
    /\ Collided
    /\ player.direction = "Up" /\ player.pos = <<StartX, StartY - 1>>
    /\ PlayerRendered.pos = player.pos
    /\ enemies # <<>>

\* a tick has run to its end with two enemies listed, one of them entering
\* collision, and the player rolled back
C14_Witness ==
    /\ Collided
    /\ Len(enemies) = 2
    /\ \E e \in 1..EnemyCount : last.result[e] = "Entered"
    /\ \E i \in StepsOf("render") :
        /\ trace[i].obj = 0 /\ trace[i].check
        /\ trace[i].self.pos # player.pos

\* the calls of the latest tick, in order
Ops == [i \in 1..Len(trace) |-> trace[i].op]

\* C9 as stated: once shutdown is signalled, run returns only after the
\* map, the enemies and the player of that tick are rendered and presented.
C9_RendersBeforeExit ==
    status = <<StatusCode_GameExit>>
        => /\ StepsOf("Map.render") # {}
           /\ \E i \in StepsOf("render") : trace[i].obj = 0
           /\ StepsOf("present") # {}

\* C9, amended: every tick polls the input exactly once, before anything is
\* rendered; the shutdown handler runs in a tick exactly when run returns
\* StatusCode.GameExit, and that tick ends at the poll: the backend is
\* closed, the handler raises, and nothing of the tick is rendered or
\* presented and no collision is checked.
C9_ExitAtPoll ==
    /\ trace # <<>> =>
        /\ Cardinality(StepsOf("peek_event")) = 1
        /\ \A i \in StepsOf("Map.render") \cup StepsOf("render")
                   \cup StepsOf("present") \cup StepsOf("update_collisions") :
              \A j \in StepsOf("peek_event") : j < i
    /\ Cardinality(StepsOf("on_shutdown")) <= 1
    /\ StepsOf("on_shutdown") # {} <=> status = <<StatusCode_GameExit>>
    /\ status = <<StatusCode_GameExit>> =>
        /\ Ops = <<"prune", "clear", "peek_event", "close", "on_shutdown">>
        /\ pc = "returned"
        /\ tb = "None"
        /\ last = NoChecks

\* run has returned StatusCode.GameExit from a tick
C9_Witness ==
    /\ status = <<StatusCode_GameExit>>
    /\ StepsOf("on_shutdown") # {}
    /\ StepsOf("present") = {}

\* how Game.run stands after a tick
C10_After ==
    /\ pc \in {"running", "returned"}
    /\ pc = "running" <=> status = <<>>
    /\ pc = "running" =>
        /\ tb = "open"
        /\ Ops[Len(Ops)] = "sleep"
        /\ StepsOf("present") # {}
        /\ StepsOf("on_shutdown") = {}
        /\ StepsOf("logger.error") = {}
    /\ pc = "returned" =>
        /\ status \in {<<StatusCode_GameExit>>, <<Failure>>}
        /\ status = <<StatusCode_GameExit>> <=> StepsOf("on_shutdown") # {}
        /\ status = <<Failure>> <=> StepsOf("logger.error") # {}
        /\ status = <<Failure>> =>
            /\ tb = "None"
            /\ Len(Ops) >= 2
            /\ Ops[Len(Ops) - 1] = "close"
            /\ Ops[Len(Ops)] = "logger.error"
        /\ StepsOf("sleep") = {}

\* C10: every tick is begun inside the loop, so none runs after run has
\* returned; run stays in the loop after a tick that raised nothing,
\* returns StatusCode.GameExit after a tick that raised GameExit, and after
\* a tick that raised anything else closes the terminal, logs and returns
\* -1; and 0, StatusCode.GameExit and -1 are three different codes.
C10_RunOutcomes ==
    [][/\ pc = "running" /\ status = <<>>
       /\ C10_After'
       /\ Cardinality({StatusCode_OK, StatusCode_GameExit, Failure}) = 3]_vars

\* run has returned -1 after a tick in which the backend failed
C10_Witness ==
    /\ pc = "returned"
    /\ status = <<Failure>>
    /\ tb = "None"
    /\ StepsOf("present") = {}

\* the calls that reach the backend: tb.clear, tb.peek_event, tb.change_cell
\* (for the map and for an object's cells) and tb.present
BackendOps == {"clear", "peek_event", "Map.render", "render_cells", "present"}

\* C21: whenever Game.run has returned, by the ESC shutdown or by an
\* exception other than GameExit in a tick, the backend's close has been
\* invoked exactly once (in the tick that returned, and in no tick before
\* it, as run goes on only with the backend open and no close made), and no
\* clear, poll, cell write or present is issued to the backend after it.
C21_ClosedOnce ==
    /\ pc = "returned" => (Cardinality(StepsOf("close")) = 1 /\ tb = "None")
    /\ pc = "running" => (StepsOf("close") = {} /\ tb = "open")
    /\ \A i \in StepsOf("close") :
          \A j \in (i + 1)..Len(trace) : trace[j].op \notin BackendOps \cup {"close"}

\* run has returned -1 from a tick that cleared, polled and wrote cells
\* before the backend failed, and closed the backend after all of them
C21_Witness ==
    /\ pc = "returned"
    /\ status = <<Failure>>
    /\ \E i \in StepsOf("close") :
          /\ \E j \in StepsOf("render_cells") : j < i
          /\ \E j \in StepsOf("peek_event") : j < i
          /\ \E j \in StepsOf("clear") : j < i

====
